---- MODULE Spec2Model ----
(***************************************************************************)
(* A model of the time-dependent parts of solar5d:                         *)
(*   - smoothFlyTo, the three-phase Cesium camera flight                   *)
(*       (lib/cesium/cameraAnimations.ts),                                 *)
(*   - EarthCesiumIntegration, the Three.js -> Cesium transition           *)
(*       (components/cesium/EarthCesiumIntegration.tsx) as wired by Home,  *)
(*   - VoiceService, the WebRTC voice session,                             *)
(*   - the geocode API route (app/api/geocode/route.ts),                   *)
(*   - usePalmPause, the hand-tracking hook (hooks/usePalmPause.ts),       *)
(*   - CesiumViewer's view handoff from the Three.js camera                *)
(*       (components/ui/toggle-image-switch.tsx).                          *)
(* Each part has its own specification over its own variables; the         *)
(* variables of the other parts stay at their initial values.              *)
(***************************************************************************)
EXTENDS Integers, Sequences, FiniteSets, TLC

VARIABLES
  \* ---- smoothFlyTo ----
  perfNow,          \* performance.now(), in ms
  viewerDestroyed,  \* viewer.isDestroyed()
  flightCalled,     \* smoothFlyTo has been called
  startTime,        \* const startTime = performance.now()
  durationMs,       \* const durationMs = duration * 1000
  rafPending,       \* requestAnimationFrame(animate) is outstanding
  promiseState,     \* state of the promise smoothFlyTo returned
  resolveCalls,     \* number of calls of resolve()
  lastPhase,        \* phase of the last frame applied to viewer.camera
  lastT,            \* elapsed time (clamped to durationMs) of that frame: t = lastT / durationMs
  \* ---- EarthCesiumIntegration (and the props Home gives it) ----
  wiring,             \* which parent renders the component: "Home" (app/page.tsx) or "Full"
  focusedPlanet,      \* Home's focusedPlanet state
  cesiumVisible,      \* useState(false)
  isTransitioning,    \* useState(false)
  viewContext,        \* threeJsViewContextForCesium: "null" or the captured camera progress
  animationFrameRef,  \* animationFrameRef.current: 0 (null) or the animation that requested last
  anims,              \* approach animations with an outstanding requestAnimationFrame, in request order
  cameraProgress,     \* threeCamera.position, as the elapsed ms it was last interpolated to
  canvasDisplay,      \* renderer.domElement.style.display
  completeTimers,     \* remaining ms of the outstanding setTimeout(..., 100) callbacks
  viewerFlights,      \* CesiumViewer fly-to-location runs that will call onTransitionComplete:
                      \* the ms each still takes at least
  parentCesiumVisible,\* what onCesiumVisibilityChange last told the parent
  startCalls,         \* calls of onTransitionStart
  completeCalls,      \* calls of onTransitionComplete
  exploreClicked,     \* the Explore Earth button was clicked and the globe has not been shown since
  \* ---- VoiceService ----
  peerConnection,   \* this.peerConnection: 0 (null) or the connection of that startRecording call
  dataChannel,      \* this.dataChannel: 0 (null) or the channel created by that call
  audioElement,     \* this.audioElement: 0 (null) or the element of that call
  mediaStream,      \* this.mediaStream: 0 (null) or the stream of that call
  isRecording,      \* this.isRecording
  hardStopTimeout,  \* this.hardStopTimeout: 0 (null) or the timer armed by that call
  calls,            \* startRecording calls suspended at an await: call |-> [at, pc]
  nextCall,         \* how many startRecording calls got past the isRecording guard, plus one
  pcOpen,           \* RTCPeerConnections created and not closed
  audioInDom,       \* audio elements appended to document.body and not removed
  streamsLive,      \* microphone streams whose tracks are not stopped
  timersPending,    \* hard-stop timers armed and neither fired nor cleared
  lastOp,           \* the VoiceService code that ran last, and how it ended
  emitted,          \* the events it emitted, 'debug' aside
  stopRan,          \* it ran stopRecording past its isRecording guard
  lastCall,         \* the startRecording call it belonged to, 0 if none
  voiceNow,         \* the time, in ms since the service was constructed
  voiceTicks,       \* how often the clock has advanced
  armedAt,          \* hard-stop timer |-> when it was armed
  firedTimer,       \* the hard-stop timer whose callback ran last, 0 if another code ran
  stoppedSession,   \* the session (this.hardStopTimeout) that code stopped, 0 if none
  \* ---- /api/geocode ----
  geoNow,           \* Date.now(), in ms since the server started
  geoTicks,         \* how often the clock has advanced
  rateLimitMap,     \* rateLimitMap: client key |-> [count, lastReset]
  searchCache,      \* searchCache: cache key |-> [timestamp, startedAt]; startedAt
                    \* records when the request that stored the entry started
  inflight,         \* GET calls suspended at `await fetch`: [cacheKey, now]
  geoResp,          \* what the handler that ran last did and answered
  probeKey,         \* the client key whose admitted requests are being counted
  probeStart,       \* when the counted period started
  probeCount,       \* its requests admitted in [probeStart, probeStart + window)
  \* ---- usePalmPause ----
  initPromise,      \* the module's initPromise: "null" or "set"
  globalVideo,      \* globalVideo, globalHands, globalCamera: "null" or "set"
  globalHands,
  globalCamera,
  initRuns,         \* the runs of the async initialiser: the await each is at, or how it ended
  videosCreated,    \* hidden video elements created and appended to document.body
  webcamRequests,   \* calls of navigator.mediaDevices.getUserMedia
  handsCreated,     \* calls of new Hands(...)
  camerasStarted,   \* calls of globalCamera.start()
  hooks,            \* component |-> the threshold its mounted hook last ran its effect with, 0: unmounted
  listeners,        \* the 'palmPause' handlers registered on window: <<component, threshold>>
  effectRuns,       \* how often the hook's effect has run
  lastPause,        \* component |-> the argument of the last call of its callback, "none": not called
  prevPause,        \* component |-> the argument of the call before that one
  invoked,          \* the components whose callback the last step called
  \* ---- smoothFlyTo, the poses of one flight ----
  poseFrom,         \* the camera when the flight starts: [lon, lat, height, pitch]
  poseTo,           \* the arguments longitude, latitude, height: [lon, lat, height]
  poseT,            \* t of the last frame, a fraction <<n, d>>; <<0, 0>> before the first
  posePhase,        \* the phase of the last frame
  cameraPose,       \* viewer.camera after it: [position, heading, pitch, roll]
  poseResolved,     \* resolve() was called
  \* ---- CesiumViewer, the view handoff ----
  threeCamera,        \* the Three.js camera: [position, up], integer vectors <<x, y, z>>
  focusedEarthDetails,\* the Earth of the Three.js scene: [center, radiusTjs]
  threeJsViewContext, \* the prop threeJsViewContext: null or [cameraPosition, cameraUp,
                      \* earthCenterTjs, earthRadiusTjs]
  visible,            \* the prop visible
  viewerRef,          \* viewerRef.current: "viewer", or "null" when creating it failed
  cesiumCamera,       \* viewer.camera: [position, up, direction]
  effectPending,      \* the effect on [visible, threeJsViewContext] has to run
  locationTimers,     \* outstanding setTimeout(..., 100) callbacks of that effect
  approaches,         \* approach animations completed
  handoffStep         \* what the last step did

flyVars == <<perfNow, viewerDestroyed, flightCalled, startTime, durationMs,
             rafPending, promiseState, resolveCalls, lastPhase, lastT>>

earthVars == <<wiring, focusedPlanet, cesiumVisible, isTransitioning, viewContext,
               animationFrameRef, anims, cameraProgress, canvasDisplay, completeTimers,
               viewerFlights, parentCesiumVisible, startCalls, completeCalls, exploreClicked>>

voiceVars == <<peerConnection, dataChannel, audioElement, mediaStream, isRecording,
               hardStopTimeout, calls, nextCall, pcOpen, audioInDom, streamsLive,
               timersPending, lastOp, emitted, stopRan, lastCall, voiceNow, voiceTicks,
               armedAt, firedTimer, stoppedSession>>

geoVars == <<geoNow, geoTicks, rateLimitMap, searchCache, inflight, geoResp,
             probeKey, probeStart, probeCount>>

palmVars == <<initPromise, globalVideo, globalHands, globalCamera, initRuns, videosCreated,
              webcamRequests, handsCreated, camerasStarted, hooks, listeners, effectRuns,
              lastPause, prevPause, invoked>>

poseVars == <<poseFrom, poseTo, poseT, posePhase, cameraPose, poseResolved>>

handoffVars == <<threeCamera, focusedEarthDetails, threeJsViewContext, visible, viewerRef,
                 cesiumCamera, effectPending, locationTimers, approaches, handoffStep>>

vars == <<flyVars, earthVars, voiceVars, geoVars, palmVars, poseVars, handoffVars>>

\* The variables an action of one part leaves alone.
nonFlyVars == <<earthVars, voiceVars, geoVars, palmVars, poseVars, handoffVars>>
nonEarthVars == <<flyVars, voiceVars, geoVars, palmVars, poseVars, handoffVars>>
nonVoiceVars == <<flyVars, earthVars, geoVars, palmVars, poseVars, handoffVars>>
nonGeoVars == <<flyVars, earthVars, voiceVars, palmVars, poseVars, handoffVars>>
nonPalmVars == <<flyVars, earthVars, voiceVars, geoVars, poseVars, handoffVars>>
nonHandoffVars == <<flyVars, earthVars, voiceVars, geoVars, palmVars, poseVars>>
nonPoseVars == <<flyVars, earthVars, voiceVars, geoVars, palmVars, handoffVars>>

Min(a, b) == IF a < b THEN a ELSE b
Max(a, b) == IF a < b THEN b ELSE a

(***************************************************************************)
(*                              smoothFlyTo                                *)
(***************************************************************************)

\* ANIMATION_TIMINGS, in seconds
DEFAULT_FLY_DURATION == 3
SEARCH_FLY_DURATION == 4

\* The durations the callers of smoothFlyTo pass (the default, and the Bali fallback).
FlyDurations == {DEFAULT_FLY_DURATION, SEARCH_FLY_DURATION}

\* Granularity of the clock, in ms, and how long it runs on after a flight's end.
TickMs == 40
MaxOvertimeTicks == 3
\* How many ticks may pass before the flight is started.
MaxStartDelayTicks == 2

\* const t = Math.min(elapsed / durationMs, 1.0), as the numerator over durationMs
ClampT(elapsed, dur) == Min(elapsed, dur)

\* The branch of animate() taken for t = tNum / dur:
\*   t < 0.33 -> phase 1, t < 0.67 -> phase 2, else phase 3
MutPhaseOf(tNum, dur) ==
  IF tNum * 100 < 67 * dur THEN "ascent"
  ELSE IF tNum * 100 < 33 * dur THEN "transfer"
  ELSE "descent"
PhaseOf(tNum, dur) ==
  IF tNum * 100 < 33 * dur THEN "ascent"
  ELSE IF tNum * 100 < 67 * dur THEN "transfer"
  ELSE "descent"

\* if (t < 1.0) requestAnimationFrame(animate); else resolve();
MutKeepsGoing(tNum, dur) == tNum <= dur
KeepsGoing(tNum, dur) == tNum < dur

\* One call of animate() at clock value `now`.
Animate(now, start, dur) ==
  LET elapsed == now - start
      tNum == ClampT(elapsed, dur)
  IN IF viewerDestroyed
     THEN \* resolve(); return;
          /\ promiseState' = IF promiseState = "pending" THEN "resolved" ELSE promiseState
          /\ resolveCalls' = resolveCalls + 1
          /\ rafPending' = FALSE
          /\ UNCHANGED <<lastPhase, lastT>>
     ELSE /\ lastPhase' = PhaseOf(tNum, dur)
          /\ lastT' = tNum
          /\ IF KeepsGoing(tNum, dur)
             THEN /\ rafPending' = TRUE
                  /\ UNCHANGED <<promiseState, resolveCalls>>
             ELSE /\ rafPending' = FALSE
                  /\ promiseState' = IF promiseState = "pending" THEN "resolved" ELSE promiseState
                  /\ resolveCalls' = resolveCalls + 1

\* smoothFlyTo(viewer, lon, lat, height, duration) on a live viewer: the promise
\* executor reads the clock and runs animate() once, synchronously.
SmoothFlyTo(duration) ==
  /\ ~flightCalled
  /\ ~viewerDestroyed
  /\ flightCalled' = TRUE
  /\ startTime' = perfNow
  /\ durationMs' = duration * 1000
  /\ promiseState' = "pending"
  /\ lastPhase' = PhaseOf(ClampT(0, duration * 1000), duration * 1000)
  /\ lastT' = ClampT(0, duration * 1000)
  /\ rafPending' = KeepsGoing(ClampT(0, duration * 1000), duration * 1000)
  /\ UNCHANGED <<perfNow, viewerDestroyed, resolveCalls>>
  /\ UNCHANGED nonFlyVars

\* The browser delivers the requested animation frame.
AnimationFrame ==
  /\ rafPending
  /\ Animate(perfNow, startTime, durationMs)
  /\ UNCHANGED <<perfNow, viewerDestroyed, flightCalled, startTime, durationMs>>
  /\ UNCHANGED nonFlyVars

\* The clock advances.
FlyTick ==
  /\ IF flightCalled
     THEN perfNow - startTime < durationMs + MaxOvertimeTicks * TickMs
     ELSE perfNow < MaxStartDelayTicks * TickMs
  /\ perfNow' = perfNow + TickMs
  /\ UNCHANGED <<viewerDestroyed, flightCalled, startTime, durationMs,
                 rafPending, promiseState, resolveCalls, lastPhase, lastT>>
  /\ UNCHANGED nonFlyVars

\* CesiumViewer unmounts: viewerRef.current.destroy()
DestroyViewer ==
  /\ ~viewerDestroyed
  /\ viewerDestroyed' = TRUE
  /\ UNCHANGED <<perfNow, flightCalled, startTime, durationMs,
                 rafPending, promiseState, resolveCalls, lastPhase, lastT>>
  /\ UNCHANGED nonFlyVars

\* No flight yet: the viewer was created by createCesiumViewer and is live.
FlyStart ==
  /\ perfNow = 0
  /\ viewerDestroyed = FALSE
  /\ flightCalled = FALSE
  /\ startTime = 0
  /\ durationMs = 0
  /\ rafPending = FALSE
  /\ promiseState = "none"
  /\ resolveCalls = 0
  /\ lastPhase = "none"
  /\ lastT = 0

FlyNext ==
  \/ \E duration \in FlyDurations : SmoothFlyTo(duration)
  \/ AnimationFrame
  \/ FlyTick
  \/ DestroyViewer

(***************************************************************************)
(*              EarthCesiumIntegration and its parent, Home                *)
(***************************************************************************)

\* const duration = 3000 (ms) of the approach animation
TRANSITION_DURATION == 3000
\* setTimeout(..., 100) before the transition is declared complete
COMPLETE_DELAY == 100

\* CesiumViewer: setTimeout(..., 100) before it flies to the user's location
VIEWER_FLY_DELAY == 100

\* The least time from the globe becoming visible to CesiumViewer's call of
\* onTransitionComplete: the delay, then (geolocation refused at once) the Bali
\* fallback flight of DEFAULT_FLY_DURATION seconds.
ViewerFlightMinMs == VIEWER_FLY_DELAY + DEFAULT_FLY_DURATION * 1000

\* Granularity of the clock of the transition, in ms.
EarthTickMs == 500
\* How many transitions may be started in one run.
MaxTransitions == 3

\* "Home": the props app/page.tsx passes (focusedPlanet and the three callbacks only);
\* "Full": a parent that also passes threeCamera, focusedEarthDetails, earthMesh,
\* renderer and radialBlurPass.
Wirings == {"Home", "Full"}

\* Values of Home's focusedPlanet: null, names from the GUI, a name as the voice tool gives it.
PlanetNames == {"null", "Earth", "earth", "Mars"}

\* focusedPlanet?.toLowerCase() === 'earth'
IsEarth(p) == p \in {"Earth", "earth"}

\* threeCamera, earthMesh, focusedEarthDetails, renderer and radialBlurPass are all given
InputsPresent(w) == w = "Full"

\* const shouldShowButton = focusedPlanet?.toLowerCase() === 'earth' && !cesiumVisible && !isTransitioning
ShouldShowButton == IsEarth(focusedPlanet) /\ ~cesiumVisible /\ ~isTransitioning

\* Home: setFocusedPlanet(name) from the GUI or the voice tool, setFocusedPlanet(null) on reset
FocusPlanet(p) ==
  /\ p # focusedPlanet
  /\ focusedPlanet' = p
  /\ UNCHANGED <<wiring, cesiumVisible, isTransitioning, viewContext, animationFrameRef,
                 anims, cameraProgress, canvasDisplay, completeTimers, viewerFlights,
                 parentCesiumVisible, startCalls, completeCalls, exploreClicked>>
  /\ UNCHANGED nonEarthVars

\* A click on the Explore Earth button: startTransition()
StartTransition ==
  /\ ShouldShowButton
  /\ startCalls < MaxTransitions
  /\ exploreClicked' = TRUE
  /\ IF isTransitioning \/ ~InputsPresent(wiring)
     THEN \* return
          UNCHANGED <<isTransitioning, startCalls, anims, animationFrameRef>>
     ELSE /\ isTransitioning' = TRUE
          /\ startCalls' = startCalls + 1
          \* animationFrameRef.current = requestAnimationFrame(animate), startTime = null
          /\ anims' = Append(anims, [id |-> startCalls + 1, elapsed |-> -1])
          /\ animationFrameRef' = startCalls + 1
  /\ UNCHANGED <<wiring, focusedPlanet, cesiumVisible, viewContext, cameraProgress,
                 canvasDisplay, completeTimers, viewerFlights, parentCesiumVisible,
                 completeCalls>>
  /\ UNCHANGED nonEarthVars

\* if (!startTime) startTime = timestamp; elapsedTime = timestamp - startTime
FrameElapsed(a) == IF a.elapsed < 0 THEN 0 ELSE a.elapsed

\* progress = Math.min(elapsedTime / duration, 1) < 1
StillApproaching(a) == FrameElapsed(a) < TRANSITION_DURATION

\* The animations that request another frame, after one frame was delivered to each.
RECURSIVE KeptAnims(_)
KeptAnims(as) ==
  IF as = <<>> THEN <<>>
  ELSE IF StillApproaching(Head(as))
       THEN <<[Head(as) EXCEPT !.elapsed = FrameElapsed(Head(as))]>> \o KeptAnims(Tail(as))
       ELSE KeptAnims(Tail(as))

\* How many animations reach progress 1 in this frame.
RECURSIVE FinishedCount(_)
FinishedCount(as) ==
  IF as = <<>> THEN 0
  ELSE (IF StillApproaching(Head(as)) THEN 0 ELSE 1) + FinishedCount(Tail(as))

\* `n` new setTimeout(..., 100) callbacks after the outstanding ones.
RECURSIVE ArmTimers(_, _)
ArmTimers(ts, n) == IF n = 0 THEN ts ELSE ArmTimers(Append(ts, COMPLETE_DELAY), n - 1)

\* The browser runs the outstanding animate(timestamp) callbacks, in request order.
EarthFrame ==
  /\ anims # <<>>
  /\ LET kept == KeptAnims(anims)
         done == FinishedCount(anims)
         last == anims[Len(anims)]
     IN /\ anims' = kept
        \* threeCamera.position.lerpVectors(startPosition, finalTargetPosition, progress)
        /\ cameraProgress' = Min(FrameElapsed(last), TRANSITION_DURATION)
        /\ animationFrameRef' = IF kept # <<>> THEN kept[Len(kept)].id ELSE animationFrameRef
        /\ IF done > 0
           THEN /\ viewContext' = Min(FrameElapsed(last), TRANSITION_DURATION)
                /\ cesiumVisible' = TRUE
                /\ parentCesiumVisible' = TRUE
                /\ canvasDisplay' = "none"
                /\ completeTimers' = ArmTimers(completeTimers, done)
                \* CesiumViewer's effect on [visible, threeJsViewContext]: after 100 ms it
                \* flies to the user's location and then calls onTransitionComplete
                /\ viewerFlights' = Append(viewerFlights, ViewerFlightMinMs)
                /\ exploreClicked' = FALSE
           ELSE UNCHANGED <<viewContext, cesiumVisible, parentCesiumVisible, canvasDisplay,
                            completeTimers, viewerFlights, exploreClicked>>
  /\ UNCHANGED <<wiring, focusedPlanet, isTransitioning, startCalls, completeCalls>>
  /\ UNCHANGED nonEarthVars

\* Time passes: running animations and armed timers age by one tick.
EarthTick ==
  /\ \/ \E i \in 1..Len(anims) : anims[i].elapsed >= 0 /\ anims[i].elapsed < TRANSITION_DURATION
     \/ \E i \in 1..Len(completeTimers) : completeTimers[i] > 0
     \/ \E i \in 1..Len(viewerFlights) : viewerFlights[i] > 0
  /\ anims' = [i \in 1..Len(anims) |->
                 IF anims[i].elapsed < 0 THEN anims[i]
                 ELSE [anims[i] EXCEPT !.elapsed = Min(@ + EarthTickMs, TRANSITION_DURATION)]]
  /\ completeTimers' = [i \in 1..Len(completeTimers) |-> Max(completeTimers[i] - EarthTickMs, 0)]
  /\ viewerFlights' = [i \in 1..Len(viewerFlights) |-> Max(viewerFlights[i] - EarthTickMs, 0)]
  /\ UNCHANGED <<wiring, focusedPlanet, cesiumVisible, isTransitioning, viewContext,
                 animationFrameRef, cameraProgress, canvasDisplay,
                 parentCesiumVisible, startCalls, completeCalls, exploreClicked>>
  /\ UNCHANGED nonEarthVars

\* setTimeout(() => { setIsTransitioning(false); onTransitionComplete?.(); }, 100)
CompleteTimer ==
  /\ completeTimers # <<>>
  /\ Head(completeTimers) = 0
  /\ completeTimers' = Tail(completeTimers)
  /\ isTransitioning' = FALSE
  /\ completeCalls' = completeCalls + 1
  /\ UNCHANGED <<wiring, focusedPlanet, cesiumVisible, viewContext, animationFrameRef,
                 anims, cameraProgress, canvasDisplay, viewerFlights, parentCesiumVisible,
                 startCalls, exploreClicked>>
  /\ UNCHANGED nonEarthVars

\* CesiumViewer: flyToUserLocation(viewer).then(() => onTransitionComplete?.()), or the
\* Bali fallback's .then; how long the geolocation takes is open.
ViewerFlightDone ==
  /\ viewerFlights # <<>>
  /\ Head(viewerFlights) = 0
  /\ viewerFlights' = Tail(viewerFlights)
  /\ completeCalls' = completeCalls + 1
  /\ UNCHANGED <<wiring, focusedPlanet, cesiumVisible, isTransitioning, viewContext,
                 animationFrameRef, anims, cameraProgress, canvasDisplay, completeTimers,
                 parentCesiumVisible, startCalls, exploreClicked>>
  /\ UNCHANGED nonEarthVars

\* cancelAnimationFrame(id): the request of animation `id`, if still outstanding, is dropped
CancelFrame(as, id) == SelectSeq(as, LAMBDA a : a.id # id)

\* resetToThreeJS(): Escape while the globe is visible, or the Back to Solar System button
ResetToThreeJS ==
  /\ cesiumVisible
  /\ cesiumVisible' = FALSE
  /\ parentCesiumVisible' = FALSE
  /\ isTransitioning' = FALSE
  /\ canvasDisplay' = IF InputsPresent(wiring) THEN "block" ELSE canvasDisplay
  /\ anims' = IF animationFrameRef # 0 THEN CancelFrame(anims, animationFrameRef) ELSE anims
  /\ animationFrameRef' = 0
  /\ UNCHANGED <<wiring, focusedPlanet, viewContext, cameraProgress, completeTimers,
                 viewerFlights, startCalls, completeCalls, exploreClicked>>
  /\ UNCHANGED nonEarthVars

\* The component as first rendered under parent `w`.
EarthStart(w) ==
  /\ wiring = w
  /\ focusedPlanet = "null"
  /\ cesiumVisible = FALSE
  /\ isTransitioning = FALSE
  /\ viewContext = "null"
  /\ animationFrameRef = 0
  /\ anims = <<>>
  /\ cameraProgress = 0
  /\ canvasDisplay = "block"
  /\ completeTimers = <<>>
  /\ viewerFlights = <<>>
  /\ parentCesiumVisible = FALSE
  /\ startCalls = 0
  /\ completeCalls = 0
  /\ exploreClicked = FALSE

EarthNext ==
  \/ \E p \in PlanetNames : FocusPlanet(p)
  \/ StartTransition
  \/ EarthFrame
  \/ EarthTick
  \/ CompleteTimer
  \/ ViewerFlightDone
  \/ ResetToThreeJS

(***************************************************************************)
(*                              VoiceService                               *)
(***************************************************************************)

\* How many startRecording calls may get past the isRecording guard in one run.
MaxCalls == 2

\* window.setTimeout(() => { ...; this.stopRecording(); }, 60000)
HARD_STOP_MS == 60000

\* The clock advances in steps of VoiceTickMs, at most MaxVoiceTicks times.
VoiceTickMs == 30000
MaxVoiceTicks == 3

\* The cleanup steps of stopRecording's try block, in order:
\*   1 this.dataChannel?.close()        2 this.mediaStream?.getTracks().forEach(stop)
\*   3 this.peerConnection?.close()     4 document.body.removeChild(this.audioElement)
CleanupSteps == 1..4

\* Which step throws: 0 when none does.
Throws == {0} \cup CleanupSteps

\* When step `throwAt` throws, the steps before it take effect and the rest are skipped.
CleanupRuns(step, throwAt) == throwAt = 0 \/ step < throwAt

\* A step can only throw if it has something to act on (ms: this.mediaStream).
CanThrow(ms, throwAt) ==
  \/ throwAt = 0
  \/ throwAt = 1 /\ dataChannel # 0
  \/ throwAt = 2 /\ ms # 0
  \/ throwAt = 3 /\ peerConnection # 0
  \/ throwAt = 4 /\ audioElement # 0

\* The events the body of stopRecording emits: 'error' from the catch, then
\* 'recordingStopped' from the finally.
StopEmits(throwAt) ==
  IF throwAt = 0 THEN <<"recordingStopped">> ELSE <<"error", "recordingStopped">>

\* finally { ... this.peerConnection = null ... }: a reference after stopRecording
MutResetRef(ref, throwAt) == IF throwAt = 0 THEN 0 ELSE ref
ResetRef(ref, throwAt) == 0

\* The body of stopRecording past its guard, run when this.mediaStream is ms, the
\* live streams are `live` and the pending hard-stop timers are `pending`.
StopBody(ms, live, pending, throwAt) ==
  /\ CanThrow(ms, throwAt)
  /\ streamsLive' = IF CleanupRuns(2, throwAt) THEN live \ {ms} ELSE live
  /\ pcOpen' = IF CleanupRuns(3, throwAt) THEN pcOpen \ {peerConnection} ELSE pcOpen
  /\ audioInDom' = IF CleanupRuns(4, throwAt) THEN audioInDom \ {audioElement} ELSE audioInDom
  \* finally: clearTimeout(this.hardStopTimeout); reset all state
  /\ timersPending' = pending \ {hardStopTimeout}
  /\ hardStopTimeout' = ResetRef(hardStopTimeout, throwAt)
  /\ dataChannel' = ResetRef(dataChannel, throwAt)
  /\ mediaStream' = ResetRef(ms, throwAt)
  /\ peerConnection' = ResetRef(peerConnection, throwAt)
  /\ audioElement' = ResetRef(audioElement, throwAt)
  /\ isRecording' = FALSE
  /\ stopRan' = TRUE
  /\ stoppedSession' = hardStopTimeout

\* if (!this.isRecording) return;  -- stopRecording leaves everything as it is
StopReturns(ms, live, throwAt) ==
  /\ throwAt = 0
  /\ mediaStream' = ms
  /\ streamsLive' = live
  /\ stopRan' = FALSE
  /\ stoppedSession' = 0
  /\ UNCHANGED <<pcOpen, audioInDom, timersPending, hardStopTimeout, dataChannel,
                 peerConnection, audioElement, isRecording>>

\* stopRecording(), called by Home when voice mode is switched off
StopRecording(throwAt) ==
  /\ IF isRecording
     THEN /\ StopBody(mediaStream, streamsLive, timersPending, throwAt)
          /\ lastOp' = "stopRecording"
          /\ emitted' = StopEmits(throwAt)
     ELSE /\ lastOp # "stopRecording returned"
          /\ StopReturns(mediaStream, streamsLive, throwAt)
          /\ lastOp' = "stopRecording returned"
          /\ emitted' = <<>>
  /\ lastCall' = 0
  /\ UNCHANGED <<calls, nextCall>>
  /\ firedTimer' = 0
  /\ UNCHANGED <<voiceNow, voiceTicks, armedAt>>
  /\ UNCHANGED nonVoiceVars

\* The hard-stop timer t fires: this.stopRecording()
HardStopFires(t, throwAt) ==
  /\ t \in timersPending
  /\ voiceNow >= armedAt[t] + HARD_STOP_MS
  /\ IF isRecording
     THEN /\ StopBody(mediaStream, streamsLive, timersPending \ {t}, throwAt)
          /\ emitted' = StopEmits(throwAt)
     ELSE /\ throwAt = 0
          /\ timersPending' = timersPending \ {t}
          /\ stopRan' = FALSE
          /\ stoppedSession' = 0
          /\ emitted' = <<>>
          /\ UNCHANGED <<streamsLive, pcOpen, audioInDom, hardStopTimeout, dataChannel,
                         mediaStream, peerConnection, audioElement, isRecording>>
  /\ lastOp' = "hard stop"
  /\ lastCall' = 0
  /\ UNCHANGED <<calls, nextCall>>
  /\ firedTimer' = t
  /\ UNCHANGED <<voiceNow, voiceTicks, armedAt>>
  /\ UNCHANGED nonVoiceVars

\* startRecording() up to its first await: the guard, new RTCPeerConnection(), the
\* audio element appended to document.body, getUserMedia() called.
StartRecording ==
  /\ IF isRecording
     THEN /\ lastOp # "startRecording returned"
          /\ lastOp' = "startRecording returned"
          /\ lastCall' = 0
          /\ UNCHANGED <<peerConnection, audioElement, pcOpen, audioInDom, calls, nextCall>>
     ELSE /\ nextCall <= MaxCalls
          /\ peerConnection' = nextCall
          /\ pcOpen' = pcOpen \cup {nextCall}
          /\ audioElement' = nextCall
          /\ audioInDom' = audioInDom \cup {nextCall}
          /\ calls' = calls @@ (nextCall :> [at |-> "getUserMedia", pc |-> 0])
          /\ nextCall' = nextCall + 1
          /\ lastCall' = nextCall
          /\ lastOp' = "startRecording awaits"
  /\ emitted' = <<>>
  /\ stopRan' = FALSE
  /\ stoppedSession' = 0
  /\ UNCHANGED <<dataChannel, mediaStream, isRecording, hardStopTimeout, streamsLive,
                 timersPending>>
  /\ firedTimer' = 0
  /\ UNCHANGED <<voiceNow, voiceTicks, armedAt>>
  /\ UNCHANGED nonVoiceVars

\* Call k runs from the await it was at to its next one, which is on connection pc
\* (0: the awaited operation is not one of a connection).
Suspend(k, at, pc) ==
  /\ calls' = [calls EXCEPT ![k] = [at |-> at, pc |-> pc]]
  /\ lastCall' = k
  /\ lastOp' = "startRecording awaits"
  /\ emitted' = <<>>
  /\ stopRan' = FALSE
  /\ stoppedSession' = 0
  /\ UNCHANGED <<peerConnection, audioElement, isRecording, hardStopTimeout,
                 pcOpen, audioInDom, timersPending, nextCall>>

\* Call k returns.
Finish(k) ==
  /\ calls' = [j \in DOMAIN calls \ {k} |-> calls[j]]
  /\ lastCall' = k

\* catch (err) { this.emit('error', ...); this.stopRecording(); }
StartFails(k, ms, live, throwAt) ==
  /\ Finish(k)
  /\ lastOp' = "startRecording failed"
  /\ IF isRecording
     THEN /\ StopBody(ms, live, timersPending, throwAt)
          /\ emitted' = <<"error">> \o StopEmits(throwAt)
     ELSE /\ StopReturns(ms, live, throwAt)
          /\ emitted' = <<"error">>
  /\ UNCHANGED nextCall

\* An operation pending on a connection settles only while that connection is open.
CanSettle(k) ==
  /\ k \in DOMAIN calls
  /\ calls[k].at \in {"createOffer", "setLocalDescription", "setRemoteDescription"}
       => calls[k].pc \in pcOpen

\* An awaited step of call k is rejected: the microphone is denied, createOffer or
\* a set...Description fails, fetch is rejected or its response is not ok, the body
\* cannot be read.
StepRejected(k, throwAt) ==
  /\ CanSettle(k)
  /\ StartFails(k, mediaStream, streamsLive, throwAt)
  /\ firedTimer' = 0
  /\ UNCHANGED <<voiceNow, voiceTicks, armedAt>>
  /\ UNCHANGED nonVoiceVars

\* getUserMedia resolves with the stream: this.mediaStream set, tracks added, data
\* channel created, createOffer() called.  With this.peerConnection null or closed
\* createDataChannel throws.
MicrophoneGranted(k, throwAt) ==
  /\ CanSettle(k)
  /\ calls[k].at = "getUserMedia"
  /\ IF peerConnection \in pcOpen
     THEN /\ throwAt = 0
          /\ mediaStream' = k
          /\ streamsLive' = streamsLive \cup {k}
          /\ Suspend(k, "createOffer", peerConnection)
          /\ dataChannel' = k
     ELSE StartFails(k, k, streamsLive \cup {k}, throwAt)
  /\ firedTimer' = 0
  /\ UNCHANGED <<voiceNow, voiceTicks, armedAt>>
  /\ UNCHANGED nonVoiceVars

\* The await after `at`.
NextAwait(at) ==
  CASE at = "createOffer" -> "setLocalDescription"
    [] at = "setLocalDescription" -> "fetch"
    [] at = "fetch" -> "responseText"
    [] at = "responseText" -> "setRemoteDescription"

\* The code between the await call k is at and the next one runs without throwing:
\*   after createOffer:  this.peerConnection.setLocalDescription(offer)
\*   after setLocalDescription:  fetch(...)
\*   after fetch:  this.peerConnection.setRemoteDescription is looked up
\*   after response.text():  setRemoteDescription is called on that connection
RunsOn(k) ==
  CASE calls[k].at = "createOffer" -> peerConnection \in pcOpen
    [] calls[k].at = "setLocalDescription" -> TRUE
    [] calls[k].at = "fetch" -> peerConnection # 0
    [] calls[k].at = "responseText" -> calls[k].pc \in pcOpen

\* The connection the next await of call k is on.
NextPc(k) ==
  CASE calls[k].at = "createOffer" -> peerConnection
    [] calls[k].at = "setLocalDescription" -> 0
    [] calls[k].at = "fetch" -> peerConnection
    [] calls[k].at = "responseText" -> calls[k].pc

\* An await of call k resolves and the call runs to its next await.
StepResolved(k, throwAt) ==
  /\ CanSettle(k)
  /\ calls[k].at \in {"createOffer", "setLocalDescription", "fetch", "responseText"}
  /\ IF RunsOn(k)
     THEN /\ throwAt = 0
          /\ Suspend(k, NextAwait(calls[k].at), NextPc(k))
          /\ UNCHANGED <<dataChannel, mediaStream, streamsLive>>
     ELSE StartFails(k, mediaStream, streamsLive, throwAt)
  /\ firedTimer' = 0
  /\ UNCHANGED <<voiceNow, voiceTicks, armedAt>>
  /\ UNCHANGED nonVoiceVars

\* setRemoteDescription resolves: isRecording = true, 'recordingStarted', the hard-stop
\* timer armed.
RecordingStarted(k) ==
  /\ CanSettle(k)
  /\ calls[k].at = "setRemoteDescription"
  /\ Finish(k)
  /\ isRecording' = TRUE
  /\ hardStopTimeout' = k
  /\ timersPending' = timersPending \cup {k}
  /\ lastOp' = "startRecording done"
  /\ emitted' = <<"recordingStarted">>
  /\ stopRan' = FALSE
  /\ stoppedSession' = 0
  /\ UNCHANGED <<peerConnection, dataChannel, audioElement, mediaStream, pcOpen,
                 audioInDom, streamsLive, nextCall>>
  /\ firedTimer' = 0
  /\ armedAt' = [t \in DOMAIN armedAt \cup {k} |-> IF t = k THEN voiceNow ELSE armedAt[t]]
  /\ UNCHANGED <<voiceNow, voiceTicks>>
  /\ UNCHANGED nonVoiceVars

\* Time passes, up to the moment the next hard-stop timer is due.
VoiceTick ==
  /\ voiceTicks < MaxVoiceTicks
  /\ \A t \in timersPending : voiceNow + VoiceTickMs <= armedAt[t] + HARD_STOP_MS
  /\ voiceNow' = voiceNow + VoiceTickMs
  /\ voiceTicks' = voiceTicks + 1
  /\ UNCHANGED <<peerConnection, dataChannel, audioElement, mediaStream, isRecording,
                 hardStopTimeout, calls, nextCall, pcOpen, audioInDom, streamsLive,
                 timersPending, lastOp, emitted, stopRan, lastCall, armedAt, firedTimer,
                 stoppedSession>>
  /\ UNCHANGED nonVoiceVars

\* new VoiceService(key)
VoiceStart ==
  /\ peerConnection = 0
  /\ dataChannel = 0
  /\ audioElement = 0
  /\ mediaStream = 0
  /\ isRecording = FALSE
  /\ hardStopTimeout = 0
  /\ calls = <<>>
  /\ nextCall = 1
  /\ pcOpen = {}
  /\ audioInDom = {}
  /\ streamsLive = {}
  /\ timersPending = {}
  /\ lastOp = "constructor"
  /\ emitted = <<>>
  /\ stopRan = FALSE
  /\ lastCall = 0
  /\ voiceNow = 0
  /\ voiceTicks = 0
  /\ armedAt = <<>>
  /\ firedTimer = 0
  /\ stoppedSession = 0

VoiceNext ==
  \/ StartRecording
  \/ \E k \in 1..MaxCalls, throwAt \in Throws : MicrophoneGranted(k, throwAt)
  \/ \E k \in 1..MaxCalls, throwAt \in Throws : StepResolved(k, throwAt)
  \/ \E k \in 1..MaxCalls, throwAt \in Throws : StepRejected(k, throwAt)
  \/ \E k \in 1..MaxCalls : RecordingStarted(k)
  \/ \E throwAt \in Throws : StopRecording(throwAt)
  \/ \E t \in 1..MaxCalls, throwAt \in Throws : HardStopFires(t, throwAt)
  \/ VoiceTick

(***************************************************************************)
(*                          GET /api/geocode                               *)
(***************************************************************************)

RATE_LIMIT_WINDOW == 60000
RATE_LIMIT_MAX_REQUESTS == 30
CACHE_TTL == 300000

\* How often the clock advances in one run, and how many GET calls may be
\* waiting for the upstream geocoder at once.
MaxGeoTicks == 2
MaxInflight == 1

\* request.headers.get(...): x-forwarded-for as the list its split(',') gives
\* (<<>>: header absent or empty), x-real-ip as a string ("": absent or empty).
ForwardedValues == {<<>>, <<"203.0.113.7", "10.0.0.1">>}
RealIpValues == {"", "203.0.113.7"}

\* searchParams.get('q') and get('limit'); "" stands for absent or empty.
QueryValues == {"", "paris"}
LimitValues == {"", "8", "5"}

\* const ip = forwarded ? forwarded.split(',')[0] : request.headers.get('x-real-ip') || 'unknown'
getRateLimitKey(forwarded, realIp) ==
  IF forwarded # <<>> THEN Head(forwarded)
  ELSE IF realIp # "" THEN realIp ELSE "unknown"

\* `${query}-${limit}-${acceptLanguage}` with limit || '8' and accept-language || 'en'
CacheKeyOf(query, limit) ==
  query \o "-" \o (IF limit = "" THEN "8" ELSE limit) \o "-" \o "en"

\* if (!record || now - record.lastReset > RATE_LIMIT_WINDOW): a fresh window starts
WindowExpired(key, now) ==
  \/ key \notin DOMAIN rateLimitMap
  \/ now - rateLimitMap[key].lastReset > RATE_LIMIT_WINDOW

\* if (record.count >= RATE_LIMIT_MAX_REQUESTS) return true;
OverLimit(count) == count >= RATE_LIMIT_MAX_REQUESTS

\* isRateLimited(key): its result ...
isRateLimited(key, now) ==
  /\ ~WindowExpired(key, now)
  /\ OverLimit(rateLimitMap[key].count)

\* ... and the rateLimitMap it leaves
RateLimitMapAfter(key, now) ==
  IF WindowExpired(key, now)
    THEN [k \in DOMAIN rateLimitMap \cup {key} |->
            IF k = key THEN [count |-> 1, lastReset |-> now] ELSE rateLimitMap[k]]
  ELSE IF OverLimit(rateLimitMap[key].count) THEN rateLimitMap
  ELSE [rateLimitMap EXCEPT ![key].count = @ + 1]

\* if (cached && (now - cached.timestamp) < CACHE_TTL)
CacheHit(cacheKey, now) ==
  /\ cacheKey \in DOMAIN searchCache
  /\ now - searchCache[cacheKey].timestamp < CACHE_TTL

\* The answer of a handler run: the HTTP status (0 while it awaits the upstream),
\* whether it looked up searchCache, whether it called fetch, and for which
\* client key and cache key it ran at which time.
Resp(status, readCache, fetched, key, cacheKey, at) ==
  [status |-> status, readCache |-> readCache, fetched |-> fetched,
   key |-> key, cacheKey |-> cacheKey, at |-> at]

\* An admitted request of the counted key inside the counted period is counted.
Counted(key, now) ==
  IF key = probeKey /\ now - probeStart < RATE_LIMIT_WINDOW THEN probeCount + 1 ELSE probeCount

\* GET up to its first await or its return.
Get(query, limit, forwarded, realIp) ==
  LET key == getRateLimitKey(forwarded, realIp)
      cacheKey == CacheKeyOf(query, limit)
  IN
  /\ IF query = ""
     THEN /\ geoResp' = Resp(400, FALSE, FALSE, "", "", geoNow)
          /\ geoResp.status # 400
          /\ UNCHANGED <<rateLimitMap, inflight, probeCount>>
     ELSE IF isRateLimited(key, geoNow)
     THEN /\ rateLimitMap' = RateLimitMapAfter(key, geoNow)
          /\ geoResp' = Resp(429, FALSE, FALSE, key, "", geoNow)
          /\ UNCHANGED <<inflight, probeCount>>
     ELSE /\ rateLimitMap' = RateLimitMapAfter(key, geoNow)
          /\ probeCount' = Counted(key, geoNow)
          /\ IF CacheHit(cacheKey, geoNow)
             THEN /\ geoResp' = Resp(200, TRUE, FALSE, key, cacheKey, geoNow)
                  /\ UNCHANGED inflight
             ELSE /\ Len(inflight) < MaxInflight
                  /\ inflight' = Append(inflight, [cacheKey |-> cacheKey, now |-> geoNow])
                  /\ geoResp' = Resp(0, TRUE, TRUE, key, cacheKey, geoNow)
  /\ UNCHANGED <<geoNow, geoTicks, searchCache, probeKey, probeStart>>
  /\ UNCHANGED nonGeoVars

\* The sequence without its i-th element.
RemoveAt(seq, i) == [j \in 1..(Len(seq) - 1) |-> IF j < i THEN seq[j] ELSE seq[j + 1]]

\* searchCache.set(cacheKey, { data: sortedData, timestamp: now })
MutEntryTimestamp(startNow, dateNow) == dateNow
EntryTimestamp(startNow, dateNow) == startNow

\* The upstream answers ok with JSON: the entry is stored and the data returned.
UpstreamOk(i) ==
  /\ i \in DOMAIN inflight
  /\ searchCache' =
       [k \in DOMAIN searchCache \cup {inflight[i].cacheKey} |->
          IF k = inflight[i].cacheKey
            THEN [timestamp |-> EntryTimestamp(inflight[i].now, geoNow),
                  startedAt |-> inflight[i].now]
            ELSE searchCache[k]]
  /\ inflight' = RemoveAt(inflight, i)
  /\ geoResp' = Resp(200, TRUE, TRUE, "", inflight[i].cacheKey, inflight[i].now)
  /\ UNCHANGED <<geoNow, geoTicks, rateLimitMap, probeKey, probeStart, probeCount>>
  /\ UNCHANGED nonGeoVars

\* fetch is rejected, the upstream answers not ok, or its body is not JSON: 503.
UpstreamFails(i) ==
  /\ i \in DOMAIN inflight
  /\ inflight' = RemoveAt(inflight, i)
  /\ geoResp' = Resp(503, TRUE, TRUE, "", inflight[i].cacheKey, inflight[i].now)
  /\ UNCHANGED <<geoNow, geoTicks, rateLimitMap, searchCache, probeKey, probeStart,
                 probeCount>>
  /\ UNCHANGED nonGeoVars

\* Time passes; the period of RATE_LIMIT_WINDOW ms in which the admitted requests
\* of a key are counted may start.
GeoTick(d, keys) ==
  /\ geoTicks < MaxGeoTicks
  /\ geoTicks' = geoTicks + 1
  /\ geoNow' = geoNow + d
  /\ \/ UNCHANGED <<probeKey, probeStart, probeCount>>
     \/ /\ probeKey = ""
        /\ probeKey' \in keys
        /\ probeStart' = geoNow'
        /\ probeCount' = 0
  /\ UNCHANGED <<rateLimitMap, searchCache, inflight, geoResp>>
  /\ UNCHANGED nonGeoVars

\* The module is loaded: both maps are empty.
GeoStart ==
  /\ geoNow = 0
  /\ geoTicks = 0
  /\ rateLimitMap = <<>>
  /\ searchCache = <<>>
  /\ inflight = <<>>
  /\ geoResp = Resp(0, FALSE, FALSE, "", "", 0)
  /\ probeKey = ""
  /\ probeStart = 0
  /\ probeCount = 0

\* The route under requests with the given parameters and headers, with the given
\* steps of the clock.
GeoNext(queries, limits, forwardeds, realIps, ticks, keys) ==
  \/ \E q \in queries, l \in limits, f \in forwardeds, r \in realIps : Get(q, l, f, r)
  \/ \E i \in 1..MaxInflight : UpstreamOk(i)
  \/ \E i \in 1..MaxInflight : UpstreamFails(i)
  \/ \E d \in ticks : GeoTick(d, keys)

\* Requests for one place of a client that a proxy forwards or that connects
\* directly, a millisecond or a rate-limit window apart.
GeoRateNext ==
  GeoNext(QueryValues, {""}, ForwardedValues, RealIpValues \ {""}, {1, RATE_LIMIT_WINDOW},
          {"203.0.113.7"})

\* Requests with several parameters of a client without address headers, a
\* millisecond or just under a cache lifetime apart.
GeoCacheNext ==
  GeoNext(QueryValues, LimitValues, {<<>>}, {""}, {1, CACHE_TTL - 1}, {})

(***************************************************************************)
(*                             usePalmPause                                *)
(***************************************************************************)

\* How often the hook's effect may run in one run of the model.
MaxEffectRuns == 4

\* The components that use the hook: Home, the overlay RootLayout renders, and
\* the overlay Home renders while hand gestures are enabled.
Components == {"Home", "LayoutOverlay", "HomeOverlay"}

\* Thresholds, in hundredths: PALM_PAUSE_THRESHOLD and another one.
PALM_PAUSE_THRESHOLD == 35
Thresholds == {PALM_PAUSE_THRESHOLD, 50}

\* if (!initPromise)
MutInitNeeded(promise, hands) == hands = "null"
InitNeeded(promise, hands) == promise = "null"

\* The step calls no hook's callback.
NoCallback ==
  /\ invoked' = {}
  /\ UNCHANGED <<lastPause, prevPause>>

\* The effect of a hook with the given threshold: the initialiser is started if
\* needed and runs to its first await (video element created and appended,
\* getUserMedia called); the 'palmPause' handler is registered.
RunEffect(c, threshold, registered) ==
  /\ effectRuns < MaxEffectRuns
  /\ effectRuns' = effectRuns + 1
  /\ IF InitNeeded(initPromise, globalHands)
     THEN /\ initPromise' = "set"
          /\ videosCreated' = videosCreated + 1
          /\ globalVideo' = "set"
          /\ webcamRequests' = webcamRequests + 1
          /\ initRuns' = Append(initRuns, "getUserMedia")
     ELSE UNCHANGED <<initPromise, videosCreated, globalVideo, webcamRequests, initRuns>>
  /\ hooks' = [hooks EXCEPT ![c] = threshold]
  /\ listeners' = registered \cup {<<c, threshold>>}
  /\ NoCallback
  /\ UNCHANGED <<globalHands, globalCamera, handsCreated, camerasStarted>>
  /\ UNCHANGED nonPalmVars

\* A component with the hook mounts; Home's overlay is a child of Home.
Mount(c, threshold) ==
  /\ hooks[c] = 0
  /\ c = "HomeOverlay" => hooks["Home"] # 0
  /\ RunEffect(c, threshold, listeners)

\* The component re-renders with another threshold: the effect's cleanup runs,
\* then the effect.
ChangeThreshold(c, threshold) ==
  /\ hooks[c] # 0
  /\ hooks[c] # threshold
  /\ RunEffect(c, threshold, listeners \ {<<c, hooks[c]>>})

\* The components that unmount with c.
UnmountedWith(c) == IF c = "Home" THEN {"Home", "HomeOverlay"} ELSE {c}

\* The component unmounts: the effect's cleanup removes its handler.
Unmount(c) ==
  /\ hooks[c] # 0
  /\ hooks' = [d \in Components |-> IF d \in UnmountedWith(c) THEN 0 ELSE hooks[d]]
  /\ listeners' = {l \in listeners : l[1] \notin UnmountedWith(c)}
  /\ lastPause' = [d \in Components |-> IF d \in UnmountedWith(c) THEN "none" ELSE lastPause[d]]
  /\ prevPause' = [d \in Components |-> IF d \in UnmountedWith(c) THEN "none" ELSE prevPause[d]]
  /\ invoked' = {}
  /\ UNCHANGED <<initPromise, globalVideo, globalHands, globalCamera, initRuns,
                 videosCreated, webcamRequests, handsCreated, camerasStarted, effectRuns>>
  /\ UNCHANGED nonPalmVars

\* Run i of the initialiser goes on to `next`.
InitGoes(i, next) == initRuns' = [initRuns EXCEPT ![i] = next]

\* getUserMedia resolves: video.srcObject = stream; video.play() is awaited.
WebcamGranted(i) ==
  /\ i \in DOMAIN initRuns
  /\ initRuns[i] = "getUserMedia"
  /\ InitGoes(i, "play")
  /\ UNCHANGED <<initPromise, globalVideo, globalHands, globalCamera, videosCreated,
                 webcamRequests, handsCreated, camerasStarted, hooks, listeners, effectRuns>>
  /\ NoCallback
  /\ UNCHANGED nonPalmVars

\* video.play() resolves: import('@mediapipe/hands') is awaited.
VideoPlays(i) ==
  /\ i \in DOMAIN initRuns
  /\ initRuns[i] = "play"
  /\ InitGoes(i, "import")
  /\ UNCHANGED <<initPromise, globalVideo, globalHands, globalCamera, videosCreated,
                 webcamRequests, handsCreated, camerasStarted, hooks, listeners, effectRuns>>
  /\ NoCallback
  /\ UNCHANGED nonPalmVars

\* The import resolves: new Hands(...), onResults, new Camera(...), start().
HandsLoaded(i) ==
  /\ i \in DOMAIN initRuns
  /\ initRuns[i] = "import"
  /\ InitGoes(i, "done")
  /\ globalHands' = "set"
  /\ handsCreated' = handsCreated + 1
  /\ globalCamera' = "set"
  /\ camerasStarted' = camerasStarted + 1
  /\ UNCHANGED <<initPromise, globalVideo, videosCreated, webcamRequests, hooks, listeners,
                 effectRuns>>
  /\ NoCallback
  /\ UNCHANGED nonPalmVars

\* An awaited step is rejected (webcam denied, play() or the import fails): the
\* initialiser's promise is rejected; initPromise keeps it.
InitRejected(i) ==
  /\ i \in DOMAIN initRuns
  /\ initRuns[i] \in {"getUserMedia", "play", "import"}
  /\ InitGoes(i, "failed")
  /\ UNCHANGED <<initPromise, globalVideo, globalHands, globalCamera, videosCreated,
                 webcamRequests, handsCreated, camerasStarted, hooks, listeners, effectRuns>>
  /\ NoCallback
  /\ UNCHANGED nonPalmVars

\* Palm distances a hand-tracking result can give, in hundredths.
Distances == {20, 40, 60}

\* callbackRef.current(dist < threshold)
PauseArg(dist, threshold) == IF dist < threshold THEN "true" ELSE "false"

\* The handler registered for c that is called with dist.
HandlerOf(c) == CHOOSE l \in listeners : l[1] = c

\* Hands reports landmarks: onResults dispatches 'palmPause' with the distance
\* and every registered handler calls its hook's callback.
PalmPauseEvent(dist) ==
  /\ globalHands = "set"
  /\ globalCamera = "set"
  /\ invoked' = {l[1] : l \in listeners}
  /\ lastPause' = [c \in Components |->
                     IF c \in invoked' THEN PauseArg(dist, HandlerOf(c)[2]) ELSE lastPause[c]]
  /\ prevPause' = [c \in Components |-> IF c \in invoked' THEN lastPause[c] ELSE prevPause[c]]
  /\ UNCHANGED <<initPromise, globalVideo, globalHands, globalCamera, initRuns, videosCreated,
                 webcamRequests, handsCreated, camerasStarted, hooks, listeners, effectRuns>>
  /\ UNCHANGED nonPalmVars

\* The module is loaded and no component is mounted yet.
PalmStart ==
  /\ initPromise = "null"
  /\ globalVideo = "null"
  /\ globalHands = "null"
  /\ globalCamera = "null"
  /\ initRuns = <<>>
  /\ videosCreated = 0
  /\ webcamRequests = 0
  /\ handsCreated = 0
  /\ camerasStarted = 0
  /\ hooks = [c \in Components |-> 0]
  /\ listeners = {}
  /\ effectRuns = 0
  /\ lastPause = [c \in Components |-> "none"]
  /\ prevPause = [c \in Components |-> "none"]
  /\ invoked = {}

PalmNext ==
  \/ \E c \in Components, th \in Thresholds : Mount(c, th)
  \/ \E c \in Components, th \in Thresholds : ChangeThreshold(c, th)
  \/ \E c \in Components : Unmount(c)
  \/ \E i \in 1..MaxEffectRuns : WebcamGranted(i)
  \/ \E i \in 1..MaxEffectRuns : VideoPlays(i)
  \/ \E i \in 1..MaxEffectRuns : HandsLoaded(i)
  \/ \E i \in 1..MaxEffectRuns : InitRejected(i)
  \/ \E dist \in Distances : PalmPauseEvent(dist)

(***************************************************************************)
(*                  smoothFlyTo: the poses of one flight                   *)
(*                                                                         *)
(* Numbers are exact fractions <<n, d>> with d > 0, in lowest terms.       *)
(* Angles are kept in degrees (toRadians only scales them).  A value       *)
(* strictly between the two ends of an interpolation is kept as the        *)
(* expression that denotes it.                                             *)
(***************************************************************************)

SPACE_OVERVIEW == 20000000
SEARCH_RESULT == 150000
LOOK_DOWN == -75
HORIZON_VIEW == -25
LANDING_DISTANCE == 200000
LANDING_BEARING == 180

RECURSIVE Gcd(_, _)
Gcd(a, b) == IF b = 0 THEN a ELSE Gcd(b, a % b)

Abs(n) == IF n < 0 THEN -n ELSE n

\* The fraction n/d (d # 0) in lowest terms with a positive denominator.
Rat(n, d) ==
  LET g == Gcd(Abs(n), Abs(d))
      sg == IF d < 0 THEN -1 ELSE 1
  IN <<sg * (n \div g), sg * (d \div g)>>

Whole(n) == <<n, 1>>
RSub(x, y) == Rat(x[1] * y[2] - y[1] * x[2], x[2] * y[2])
RAdd(x, y) == Rat(x[1] * y[2] + y[1] * x[2], x[2] * y[2])
RMul(x, y) == Rat(x[1] * y[1], x[2] * y[2])
RDiv(x, y) == Rat(x[1] * y[2], x[2] * y[1])
RLess(x, y) == x[1] * y[2] < y[1] * x[2]

\* return t < 0.5 ? 4 * t * t * t : 1 - Math.pow(-2 * t + 2, 3) / 2;
easeInOutCubic(x) ==
  LET n == x[1]
      d == x[2]
  IN IF 2 * n < d
       THEN Rat(4 * n * n * n, d * d * d)
       ELSE Rat(d * d * d - 4 * (d - n) * (d - n) * (d - n), d * d * d)

\* Cesium.Math.lerp / Cesium.Cartesian3.lerp: (1 - f) * a + f * b
Lerp(a, b, f) ==
  IF f = Whole(0) \/ a = b THEN a
  ELSE IF f = Whole(1) THEN b
  ELSE [from |-> a, to |-> b, by |-> f]

\* Cesium.Cartesian3.fromDegrees(lon, lat, height)
fromDegrees(lon, lat, height) == [lon |-> lon, lat |-> lat, height |-> height]

\* Math.sin and Math.cos of the landing bearing, which is a multiple of 90 degrees
\* (Math.sin(Math.PI) is 1.2e-16 in doubles: less than a micrometre on the ground).
SinDeg(deg) == CASE deg = 0 -> 0 [] deg = 90 -> 1 [] deg = 180 -> 0 [] deg = 270 -> -1
CosDeg(deg) == CASE deg = 0 -> 1 [] deg = 90 -> 0 [] deg = 180 -> -1 [] deg = 270 -> 0

\* offsetLongitude: the sine term is 0 for the bearings above whatever cos(latitude) is,
\* away from the poles.
OffsetLongitude(lon, lat) ==
  IF SinDeg(LANDING_BEARING) = 0 THEN lon
  ELSE [lon |-> lon, east |-> Rat(LANDING_DISTANCE * SinDeg(LANDING_BEARING), 111320),
        overCosOf |-> lat]

\* offsetLatitude = latitude + (LANDING_DISTANCE / 111320) * Math.cos(offsetBearing)
OffsetLatitude(lat) == RAdd(lat, Rat(LANDING_DISTANCE * CosDeg(LANDING_BEARING), 111320))

highAltitudeStart(from) == fromDegrees(from.lon, from.lat, Whole(SPACE_OVERVIEW))
highAltitudeEnd(to) == fromDegrees(to.lon, to.lat, Whole(SPACE_OVERVIEW))
finalCameraPosition(to) ==
  fromDegrees(OffsetLongitude(to.lon, to.lat), OffsetLatitude(to.lat), to.height)

\* The camera after position = ...; setView({orientation: {heading: 0, pitch, roll: 0}})
Pose(position, pitch) == [position |-> position, heading |-> 0, pitch |-> pitch, roll |-> 0]

\* Phase 1: phase1T = easeInOutCubic(t / 0.33)
MutPhase1T(t) == easeInOutCubic(RDiv(t, Rat(34, 100)))
Phase1T(t) == easeInOutCubic(RDiv(t, Rat(33, 100)))

AscentPose(t, from, to) ==
  Pose(Lerp(fromDegrees(from.lon, from.lat, from.height), highAltitudeStart(from), Phase1T(t)),
       Lerp(from.pitch, Whole(LOOK_DOWN), Phase1T(t)))

\* Phase 2: phase2T = easeInOutCubic((t - 0.33) / 0.34)
Phase2T(t) == easeInOutCubic(RDiv(RSub(t, Rat(33, 100)), Rat(34, 100)))

TransferPose(t, from, to) ==
  Pose(fromDegrees(Lerp(from.lon, to.lon, Phase2T(t)), Lerp(from.lat, to.lat, Phase2T(t)),
                   Whole(SPACE_OVERVIEW)),
       Whole(LOOK_DOWN))

\* Phase 3: phase3T = (t - 0.67) / 0.33
MutPhase3T(t) == RDiv(RSub(t, Rat(67, 100)), Rat(34, 100))
Phase3T(t) == RDiv(RSub(t, Rat(67, 100)), Rat(33, 100))

\* pitchProgress = phase3T < 0.4 ? 0 : easeInOutCubic((phase3T - 0.4) / 0.6)
PitchProgress(p3) ==
  IF RLess(p3, Rat(4, 10)) THEN Whole(0)
  ELSE easeInOutCubic(RDiv(RSub(p3, Rat(4, 10)), Rat(6, 10)))

DescentPose(t, from, to) ==
  Pose(Lerp(highAltitudeEnd(to), finalCameraPosition(to), easeInOutCubic(Phase3T(t))),
       Lerp(Whole(LOOK_DOWN), Whole(HORIZON_VIEW), PitchProgress(Phase3T(t))))

\* The pose animate() applies at t = t[1] / t[2].
FramePose(t, from, to) ==
  CASE PhaseOf(t[1], t[2]) = "ascent" -> AscentPose(t, from, to)
    [] PhaseOf(t[1], t[2]) = "transfer" -> TransferPose(t, from, to)
    [] PhaseOf(t[1], t[2]) = "descent" -> DescentPose(t, from, to)

\* elapsed / durationMs of the frames, in thousandths, and how far apart two
\* frames can be.
FrameTimes == {2 * k : k \in 0..525}
MaxFrameGap == 100

\* Where flights start (the initial view, a place looked at obliquely) and where
\* they go (search results, the user's location).
StartPoses ==
  {[lon |-> Whole(115), lat |-> Whole(-12), height |-> Whole(SPACE_OVERVIEW), pitch |-> Whole(LOOK_DOWN)],
   [lon |-> Rat(47, 20), lat |-> Rat(977, 20), height |-> Whole(SEARCH_RESULT),
    pitch |-> Whole(HORIZON_VIEW)]}
Targets ==
  {[lon |-> Rat(47, 20), lat |-> Rat(977, 20), height |-> Whole(SEARCH_RESULT)],
   [lon |-> Whole(115), lat |-> Rat(-83, 10), height |-> Whole(SEARCH_RESULT)],
   [lon |-> Whole(-70), lat |-> Whole(-54), height |-> Whole(SPACE_OVERVIEW)]}

\* animate() at elapsed / durationMs = e / 1000, on a viewer that is not destroyed;
\* the first call is the one smoothFlyTo makes itself.
AnimateAt(e) ==
  /\ ~poseResolved
  /\ IF poseT = <<0, 0>> THEN e = 0
     ELSE /\ ~RLess(Rat(e, 1000), poseT)
          /\ RLess(Rat(e - MaxFrameGap, 1000), poseT) \/ Rat(e - MaxFrameGap, 1000) = poseT
  /\ poseT' = Rat(ClampT(e, 1000), 1000)
  /\ posePhase' = PhaseOf(poseT'[1], poseT'[2])
  /\ cameraPose' = FramePose(poseT', poseFrom, poseTo)
  /\ poseResolved' = ~KeepsGoing(poseT'[1], poseT'[2])
  /\ UNCHANGED <<poseFrom, poseTo>>
  /\ UNCHANGED nonPoseVars

\* No flight was started.
PoseIdle ==
  /\ poseFrom = [lon |-> Whole(0), lat |-> Whole(0), height |-> Whole(0), pitch |-> Whole(0)]
  /\ poseTo = [lon |-> Whole(0), lat |-> Whole(0), height |-> Whole(0)]
  /\ poseT = <<0, 0>>
  /\ posePhase = "none"
  /\ cameraPose = Pose(fromDegrees(Whole(0), Whole(0), Whole(0)), Whole(0))
  /\ poseResolved = FALSE

\* smoothFlyTo(viewer, longitude, latitude, height) before its first frame.
PoseStart ==
  /\ poseFrom \in StartPoses
  /\ poseTo \in Targets
  /\ poseT = <<0, 0>>
  /\ posePhase = "none"
  /\ cameraPose = Pose(fromDegrees(poseFrom.lon, poseFrom.lat, poseFrom.height), poseFrom.pitch)
  /\ poseResolved = FALSE

PoseNext == \E e \in FrameTimes : AnimateAt(e)

(***************************************************************************)
(*        CesiumViewer: handing the Three.js view over to Cesium           *)
(***************************************************************************)
\* Cesium.Ellipsoid.WGS84.maximumRadius, in metres.
WGS84_MAXIMUM_RADIUS == 6378137

\* const distanceMultiplier = 1.8
distanceMultiplier == Rat(18, 10)

\* new THREE.Vector3().subVectors(a, b)
subVectors(a, b) == <<a[1] - b[1], a[2] - b[2], a[3] - b[3]>>

\* Cesium.Cartesian3.multiplyByScalar and Cesium.Cartesian3.subtract
multiplyByScalar(v, s) == <<RMul(v[1], s), RMul(v[2], s), RMul(v[3], s)>>
subtract(a, b) == <<RSub(a[1], b[1]), RSub(a[2], b[2]), RSub(a[3], b[3])>>
ZERO == <<Whole(0), Whole(0), Whole(0)>>

\* What stands for the DeveloperError normalize throws.
NotANumber == [threw |-> TRUE]

\* x / y for y # 0, cancelling common factors before multiplying.
Ratio(x, y) ==
  LET g == Gcd(Abs(x[1]), Abs(y[1]))
      h == Gcd(x[2], y[2])
  IN  Rat((x[1] \div g) * (y[2] \div h), (x[2] \div h) * (y[1] \div g))

\* Cesium.Cartesian3.normalize(v): the unit vector along v, written as v divided
\* by the size of its first component that is not 0 (two vectors have the same
\* unit vector exactly when they agree on this); normalize throws for the
\* zero vector.
normalize(v) ==
  IF v = ZERO THEN NotANumber
  ELSE LET i == CHOOSE j \in 1..3 : v[j][1] # 0 /\ \A k \in 1..(j - 1) : v[k][1] = 0
           m == Rat(Abs(v[i][1]), v[i][2])
       IN  [along |-> <<Ratio(v[1], m), Ratio(v[2], m), Ratio(v[3], m)>>]

\* cesiumCameraPositionECF before the multiplier: (x, z, y) of the offset, scaled.
MutPositionECF(offset, scale) ==
  <<RMul(Whole(offset[1]), scale), RMul(Whole(offset[2]), scale), RMul(Whole(offset[3]), scale)>>
PositionECF(offset, scale) ==
  <<RMul(Whole(offset[1]), scale), RMul(Whole(offset[3]), scale), RMul(Whole(offset[2]), scale)>>

\* cesiumCameraUpECF before it is normalised: (x, z, y) of the Three.js up vector.
UpECF(cameraUp) == <<Whole(cameraUp[1]), Whole(cameraUp[3]), Whole(cameraUp[2])>>

\* The try block of the effect: the camera it leaves and whether it threw.  The
\* up vector is normalised before anything is assigned, the direction after
\* position and up were assigned.
MatchThreeJsView(camera, context) ==
  LET tjsOffsetFromEarthCenter == subVectors(context.cameraPosition, context.earthCenterTjs)
      scale == Rat(WGS84_MAXIMUM_RADIUS, context.earthRadiusTjs)
      cesiumCameraPositionECF ==
        multiplyByScalar(PositionECF(tjsOffsetFromEarthCenter, scale), distanceMultiplier)
      cesiumCameraUpECF == normalize(UpECF(context.cameraUp))
      directionToEarthCenter == normalize(subtract(ZERO, cesiumCameraPositionECF))
  IN  IF cesiumCameraUpECF = NotANumber THEN [camera |-> camera, threw |-> TRUE]
      ELSE IF directionToEarthCenter = NotANumber
        THEN [camera |-> [camera EXCEPT !.position = cesiumCameraPositionECF,
                                        !.up = cesiumCameraUpECF],
              threw |-> TRUE]
      ELSE [camera |-> [position |-> cesiumCameraPositionECF, up |-> cesiumCameraUpECF,
                        direction |-> directionToEarthCenter],
            threw |-> FALSE]

\* The camera of a new viewer, and a camera that smoothFlyTo is moving.
HomeCamera == [position |-> <<"home">>, up |-> [view |-> "home"], direction |-> [view |-> "home"]]
FlyingCamera ==
  [position |-> <<"flying">>, up |-> [view |-> "flying"], direction |-> [view |-> "flying"]]

\* threeJsViewContext = null
NullContext == [isNull |-> TRUE]

\* Where the Three.js camera and the Earth can be, which way the camera's up
\* vector can point, and the radius of the Earth, in scene units.  The camera
\* is never at the centre of the Earth.
EarthCenters == {<<0, 0, 0>>, <<3, 0, -1>>}
CameraPositions == {<<0, 0, 4>>, <<2, 1, -3>>, <<-1, 3, 2>>}
CameraUps == {<<0, 1, 0>>, <<2, 1, -2>>}
EarthRadii == {1, 2}
MaxApproaches == 2

\* The Three.js camera moves (controls, frames of the approach animation).
MoveThreeCamera(p, u) ==
  /\ ~visible
  /\ threeCamera # [position |-> p, up |-> u]
  /\ threeCamera' = [position |-> p, up |-> u]
  /\ handoffStep' = "moved"
  /\ UNCHANGED <<focusedEarthDetails, threeJsViewContext, visible, viewerRef, cesiumCamera,
                 effectPending, locationTimers, approaches>>
  /\ UNCHANGED nonHandoffVars

\* The last frame of the approach animation: it captures the view and shows the
\* globe.
ApproachCompletes ==
  /\ ~visible
  /\ approaches < MaxApproaches
  /\ threeJsViewContext' = [cameraPosition |-> threeCamera.position,
                            cameraUp |-> threeCamera.up,
                            earthCenterTjs |-> focusedEarthDetails.center,
                            earthRadiusTjs |-> focusedEarthDetails.radiusTjs]
  /\ visible' = TRUE
  /\ effectPending' = TRUE
  /\ approaches' = approaches + 1
  /\ handoffStep' = "captured"
  /\ UNCHANGED <<threeCamera, focusedEarthDetails, viewerRef, cesiumCamera, locationTimers>>
  /\ UNCHANGED nonHandoffVars

\* CesiumViewer's effect on [visible, threeJsViewContext].
VisibleEffect ==
  /\ effectPending
  /\ effectPending' = FALSE
  /\ IF viewerRef = "null" \/ ~visible
       THEN /\ handoffStep' = "skipped"
            /\ UNCHANGED <<cesiumCamera, locationTimers>>
       ELSE /\ locationTimers' = locationTimers + 1
            /\ IF threeJsViewContext # NullContext
                 THEN LET r == MatchThreeJsView(cesiumCamera, threeJsViewContext)
                      IN  IF r.threw
                            THEN cesiumCamera' = FlyingCamera /\ handoffStep' = "fallback"
                            ELSE cesiumCamera' = r.camera /\ handoffStep' = "matched"
                 ELSE cesiumCamera' = FlyingCamera /\ handoffStep' = "fallback"
  /\ UNCHANGED <<threeCamera, focusedEarthDetails, threeJsViewContext, visible, viewerRef,
                 approaches>>
  /\ UNCHANGED nonHandoffVars

\* The effect's timer: resize, then fly to the user's location.
LocationTimerFires ==
  /\ locationTimers > 0
  /\ ~effectPending
  /\ locationTimers' = locationTimers - 1
  /\ cesiumCamera' = FlyingCamera
  /\ handoffStep' = "flying"
  /\ UNCHANGED <<threeCamera, focusedEarthDetails, threeJsViewContext, visible, viewerRef,
                 effectPending, approaches>>
  /\ UNCHANGED nonHandoffVars

\* Escape: resetToThreeJS hides the globe; the view context stays.
HideGlobe ==
  /\ visible
  /\ ~effectPending
  /\ visible' = FALSE
  /\ effectPending' = TRUE
  /\ handoffStep' = "hidden"
  /\ UNCHANGED <<threeCamera, focusedEarthDetails, threeJsViewContext, viewerRef, cesiumCamera,
                 locationTimers, approaches>>
  /\ UNCHANGED nonHandoffVars

\* The part is not used.
HandoffIdle ==
  /\ threeCamera = [position |-> <<0, 0, 4>>, up |-> <<0, 1, 0>>]
  /\ focusedEarthDetails = [center |-> <<0, 0, 0>>, radiusTjs |-> 1]
  /\ threeJsViewContext = NullContext
  /\ visible = FALSE
  /\ viewerRef = "viewer"
  /\ cesiumCamera = HomeCamera
  /\ effectPending = FALSE
  /\ locationTimers = 0
  /\ approaches = 0
  /\ handoffStep = "none"

\* CesiumViewer mounted hidden, its first effects still to run.
HandoffStart ==
  /\ threeCamera \in [position : CameraPositions, up : CameraUps]
  /\ focusedEarthDetails \in [center : EarthCenters, radiusTjs : EarthRadii]
  /\ threeJsViewContext = NullContext
  /\ visible = FALSE
  /\ viewerRef \in {"viewer", "null"}
  /\ cesiumCamera = HomeCamera
  /\ effectPending = TRUE
  /\ locationTimers = 0
  /\ approaches = 0
  /\ handoffStep = "none"

HandoffNext ==
  \/ \E p \in CameraPositions, u \in CameraUps : MoveThreeCamera(p, u)
  \/ ApproachCompletes
  \/ VisibleEffect
  \/ LocationTimerFires
  \/ HideGlobe

(***************************************************************************)
(*                             Specifications                              *)
(***************************************************************************)

FlyInit == FlyStart /\ EarthStart("Home") /\ VoiceStart /\ GeoStart /\ PalmStart /\ PoseIdle /\ HandoffIdle

SpecFly == FlyInit /\ [][FlyNext]_vars

\* Frames keep being delivered and the clock advances.
FairSpecFly == SpecFly /\ WF_vars(AnimationFrame) /\ WF_vars(FlyTick)

EarthInit == FlyStart /\ VoiceStart /\ GeoStart /\ PalmStart /\ PoseIdle /\ HandoffIdle /\ \E w \in Wirings : EarthStart(w)

SpecEarth == EarthInit /\ [][EarthNext]_vars

\* Animation frames keep being delivered, the clock advances and due timers fire.
FairSpecEarth ==
  SpecEarth /\ WF_vars(EarthFrame) /\ WF_vars(EarthTick) /\ WF_vars(CompleteTimer)

VoiceInit == FlyStart /\ EarthStart("Home") /\ VoiceStart /\ GeoStart /\ PalmStart /\ PoseIdle /\ HandoffIdle

SpecVoice == VoiceInit /\ [][VoiceNext]_vars

GeoInit == FlyStart /\ EarthStart("Home") /\ VoiceStart /\ GeoStart /\ PalmStart /\ PoseIdle /\ HandoffIdle

SpecGeoRate == GeoInit /\ [][GeoRateNext]_vars

SpecGeoCache == GeoInit /\ [][GeoCacheNext]_vars

PalmInit == FlyStart /\ EarthStart("Home") /\ VoiceStart /\ GeoStart /\ PalmStart /\ PoseIdle /\ HandoffIdle

SpecPalm == PalmInit /\ [][PalmNext]_vars

PoseInit == FlyStart /\ EarthStart("Home") /\ VoiceStart /\ GeoStart /\ PalmStart /\ PoseStart /\ HandoffIdle

SpecPose == PoseInit /\ [][PoseNext]_vars

HandoffInit ==
  FlyStart /\ EarthStart("Home") /\ VoiceStart /\ GeoStart /\ PalmStart /\ PoseIdle /\ HandoffStart

SpecHandoff == HandoffInit /\ [][HandoffNext]_vars

(***************************************************************************)
(*                        Claims about smoothFlyTo                         *)
(***************************************************************************)

PhaseRank(p) ==
  CASE p = "none" -> 0
    [] p = "ascent" -> 1
    [] p = "transfer" -> 2
    [] p = "descent" -> 3

\* The frame last applied lies in the range of t its phase stands for.
FramePhaseMatchesT ==
  /\ lastPhase = "ascent" => lastT * 100 < 33 * durationMs
  /\ lastPhase = "transfer" => 33 * durationMs <= lastT * 100 /\ lastT * 100 < 67 * durationMs
  /\ lastPhase = "descent" => 67 * durationMs <= lastT * 100 /\ lastT <= durationMs

\* C1: within one flight the frames applied to the camera go ascent (t < 0.33),
\* transfer (0.33 <= t < 0.67), descent (t >= 0.67) and never back to an earlier
\* phase, and a flight that ended without the viewer being destroyed applied a
\* descent frame with t = 1 last.
C1_PhasesInOrder ==
  /\ [][PhaseRank(lastPhase') >= PhaseRank(lastPhase)]_vars
  /\ [](FramePhaseMatchesT)
  /\ [](promiseState = "resolved" /\ ~viewerDestroyed
          => lastPhase = "descent" /\ lastT = durationMs)

C1_Witness ==
  /\ promiseState = "resolved"
  /\ ~viewerDestroyed
  /\ lastPhase = "descent"
  /\ lastT = durationMs
  /\ durationMs = SEARCH_FLY_DURATION * 1000

ApproachRunning == anims # <<>>

\* C2: a transition goes through its steps in order: isTransitioning is set together
\* with the call of onTransitionStart; while the approach animation has progress below
\* 1 the transition stays in progress and Cesium stays hidden; Cesium becomes visible
\* only in the frame that reaches progress 1, with the view context captured and the
\* canvas hidden; isTransitioning is cleared and onTransitionComplete called only
\* after that, never while an approach is still running.
C2_TransitionStepsInOrder ==
  /\ [][~isTransitioning /\ isTransitioning' => startCalls' = startCalls + 1]_vars
  /\ [](ApproachRunning => isTransitioning /\ ~cesiumVisible)
  /\ [][~cesiumVisible /\ cesiumVisible'
          => viewContext' = TRANSITION_DURATION /\ canvasDisplay' = "none" /\ ~ApproachRunning']_vars
  /\ [][isTransitioning /\ ~isTransitioning' => ~ApproachRunning]_vars
  /\ [][completeCalls' # completeCalls => ~ApproachRunning]_vars

\* C5: once Explore Earth has been clicked with Earth focused, the globe eventually
\* becomes visible and the parent is told so.
C5_GlobeEventuallyVisible ==
  exploreClicked ~> (cesiumVisible /\ parentCesiumVisible)

\* C16: startTransition starts an approach animation only when no transition is
\* in progress and the camera, Earth mesh, Earth details, renderer and blur pass
\* are all there, and at most one approach animation is running at any time.
C16_AtMostOneApproach ==
  /\ [][startCalls' # startCalls => ~isTransitioning /\ InputsPresent(wiring)]_vars
  /\ [](Len(anims) <= 1)

(***************************************************************************)
(*                       Claims about VoiceService                         *)
(***************************************************************************)

\* How often event e is in the sequence of emitted events.
Count(seq, e) == Cardinality({i \in DOMAIN seq : seq[i] = e})

\* C3: at most one WebRTC session (peer connection) created by the service is open
\* at any time, whatever the interleaving of startRecording and stopRecording calls.
C3_AtMostOneSession == Cardinality(pcOpen) <= 1

\* C6: whenever stopRecording has run on a recording service, the four references
\* are null, isRecording is false, the session's hard-stop timer is no longer
\* pending, and 'recordingStopped' was emitted exactly once -- also when a cleanup
\* step threw.
C6_StopPostcondition ==
  [][(isRecording /\ stopRan') =>
       /\ dataChannel' = 0
       /\ mediaStream' = 0
       /\ peerConnection' = 0
       /\ audioElement' = 0
       /\ ~isRecording'
       /\ hardStopTimeout' = 0
       /\ hardStopTimeout \notin timersPending'
       /\ Count(emitted', "recordingStopped") = 1]_vars

\* stopRecording ran on a recording service and its third cleanup step threw.
C6_Witness ==
  /\ stopRan
  /\ lastOp = "stopRecording"
  /\ emitted = <<"error", "recordingStopped">>
  /\ pcOpen # {}
  /\ streamsLive = {}
  /\ peerConnection = 0
  /\ ~isRecording

\* C7: when a step of startRecording has failed, 'error' was emitted, the resources
\* the call created are released, all references are null and isRecording is false.
C7_FailedStartCleansUp ==
  lastOp = "startRecording failed" =>
    /\ Count(emitted, "error") >= 1
    /\ lastCall \notin pcOpen
    /\ lastCall \notin audioInDom
    /\ lastCall \notin streamsLive
    /\ peerConnection = 0
    /\ dataChannel = 0
    /\ audioElement = 0
    /\ mediaStream = 0
    /\ ~isRecording

\* A recording session never lasts longer than HARD_STOP_MS.
SessionEndsInTime ==
  isRecording => voiceNow - armedAt[hardStopTimeout] <= HARD_STOP_MS

\* C12: a recording session is stopped at the latest when its hard-stop timer
\* is due, 60 seconds after it started, and a hard-stop timer that stops a
\* session is the timer of that session.
C12_HardStopOwnSessionOnly ==
  /\ SessionEndsInTime
  /\ (firedTimer # 0 /\ stopRan) => firedTimer = stoppedSession

(***************************************************************************)
(*                     Claims about GET /api/geocode                       *)
(***************************************************************************)

\* C8: in any period of 60 seconds at most 30 requests of one client key are
\* admitted, and a request answered 429 neither read the cache nor called the
\* upstream geocoder.
C8_AtMostThirtyPerMinute ==
  /\ probeCount <= RATE_LIMIT_MAX_REQUESTS
  /\ geoResp.status = 429 => ~geoResp.readCache /\ ~geoResp.fetched

\* The admitted request that ran last (status 0: it awaits the upstream).
LastAdmittedGet == geoResp.key # "" /\ geoResp.status \in {0, 200}

\* An entry for the request's cache key exists and the request that stored it
\* started less than CACHE_TTL before this one.
FreshEntry ==
  /\ geoResp.cacheKey \in DOMAIN searchCache
  /\ geoResp.at - searchCache[geoResp.cacheKey].startedAt < CACHE_TTL

\* C9: an admitted request is answered from the cache without an upstream fetch
\* exactly when an entry for its cache key exists whose storing request started
\* less than 5 minutes earlier, and otherwise fetches; only a handler that got a
\* successful upstream answer changes the cache, and one answering 503 does not.
C9_CacheHitIffFresh ==
  /\ [](LastAdmittedGet =>
          /\ geoResp.readCache
          /\ FreshEntry <=> (geoResp.status = 200 /\ ~geoResp.fetched)
          /\ ~FreshEntry <=> (geoResp.status = 0 /\ geoResp.fetched))
  /\ [][searchCache' # searchCache =>
          /\ geoResp'.status = 200 /\ geoResp'.fetched
          /\ DOMAIN searchCache' = DOMAIN searchCache \cup {geoResp'.cacheKey}
          /\ \A k \in DOMAIN searchCache \ {geoResp'.cacheKey} :
               searchCache'[k] = searchCache[k]]_vars
  /\ [][geoResp'.status = 503 => searchCache' = searchCache]_vars

\* A request arrives exactly CACHE_TTL after the request that stored the entry
\* for its key started (the entry was stored later), and goes to the upstream.
C9_Witness ==
  /\ LastAdmittedGet
  /\ geoResp.cacheKey \in DOMAIN searchCache
  /\ geoResp.at - searchCache[geoResp.cacheKey].startedAt = CACHE_TTL
  /\ geoResp.status = 0
  /\ geoResp.fetched

(***************************************************************************)
(*                       Claims about usePalmPause                         *)
(***************************************************************************)

\* C10: the hidden video element, the webcam capture, MediaPipe Hands and its
\* camera loop are each set up at most once, however often hooks mount, unmount,
\* remount or change threshold.
C10_InitialisedAtMostOnce ==
  /\ Len(initRuns) <= 1
  /\ videosCreated <= 1
  /\ webcamRequests <= 1
  /\ handsCreated <= 1
  /\ camerasStarted <= 1

\* Two hooks are mounted after at least one more effect run (a remount or a
\* threshold change) and the one initialisation is complete.
C10_Witness ==
  /\ Cardinality({c \in Components : hooks[c] # 0}) = 2
  /\ effectRuns >= 3
  /\ handsCreated = 1
  /\ camerasStarted = 1
  /\ initRuns = <<"done">>

\* C11: a hook's callback is called only when the pause value (distance below
\* threshold) differs from the value of its previous call.
C11_CallbackOnChangeOnly ==
  \A c \in invoked : lastPause[c] # prevPause[c]

(***************************************************************************)
(*                 Claims about the poses of smoothFlyTo                   *)
(***************************************************************************)

\* The point LANDING_DISTANCE metres south of the target (a degree of latitude
\* being 111320 m), at the requested height.
LandingPoint ==
  [lon |-> poseTo.lon,
   lat |-> RSub(poseTo.lat, Rat(LANDING_DISTANCE, 111320)),
   height |-> poseTo.height]

\* C13: when the flight has completed, the last pose applied is the landing
\* point south of the target at the requested height, with pitch HORIZON_VIEW,
\* heading 0 and roll 0.
C13_FinalPose ==
  poseResolved =>
    /\ cameraPose.position = LandingPoint
    /\ RLess(cameraPose.position.lat, poseTo.lat)
    /\ cameraPose.pitch = Whole(HORIZON_VIEW)
    /\ cameraPose.heading = 0
    /\ cameraPose.roll = 0

\* A flight from the place looked at obliquely to the far south has completed
\* on a frame past the end of the duration.
C13_Witness ==
  /\ poseResolved
  /\ poseT = Whole(1)
  /\ posePhase = "descent"
  /\ poseTo.lat = Whole(-54)
  /\ poseFrom.pitch = Whole(HORIZON_VIEW)
  /\ cameraPose.position.height = Whole(SPACE_OVERVIEW)

\* The pose at the top of the climb and the pose at the end of the transfer.
AboveStart == Pose(fromDegrees(poseFrom.lon, poseFrom.lat, Whole(SPACE_OVERVIEW)), Whole(LOOK_DOWN))
AboveTarget == Pose(fromDegrees(poseTo.lon, poseTo.lat, Whole(SPACE_OVERVIEW)), Whole(LOOK_DOWN))

\* C14: the pose does not jump at a phase boundary: the ascent ends and the
\* transfer starts above the start point at SPACE_OVERVIEW looking down, the
\* transfer ends and the descent starts above the target at SPACE_OVERVIEW
\* looking down, and the pitch is LOOK_DOWN on every frame of the transfer and
\* of the first 40% of the descent.
C14_NoJumpAtPhaseBoundaries ==
  /\ AscentPose(Rat(33, 100), poseFrom, poseTo) = AboveStart
  /\ TransferPose(Rat(33, 100), poseFrom, poseTo) = AboveStart
  /\ TransferPose(Rat(67, 100), poseFrom, poseTo) = AboveTarget
  /\ DescentPose(Rat(67, 100), poseFrom, poseTo) = AboveTarget
  /\ (posePhase = "transfer" /\ poseT = Rat(33, 100)) => cameraPose = AboveStart
  /\ (posePhase = "descent" /\ poseT = Rat(67, 100)) => cameraPose = AboveTarget
  /\ posePhase = "transfer" => cameraPose.pitch = Whole(LOOK_DOWN)
  /\ (posePhase = "descent" /\ RLess(Phase3T(poseT), Rat(4, 10))) =>
       cameraPose.pitch = Whole(LOOK_DOWN)

\* A frame a third of the way into the descent of a flight that started with
\* the camera low and looking at the horizon: the camera is between the top
\* of the descent and the landing point and still looks down.
C14_Witness ==
  /\ posePhase = "descent"
  /\ poseT = Rat(78, 100)
  /\ poseFrom.pitch = Whole(HORIZON_VIEW)
  /\ poseFrom.height = Whole(SEARCH_RESULT)
  /\ cameraPose.position \notin {AboveTarget.position, LandingPoint}
  /\ cameraPose.pitch = Whole(LOOK_DOWN)

(***************************************************************************)
(*                     Claims about the view handoff                       *)
(***************************************************************************)

\* The vector with its Y and Z components exchanged.
ExchangeYZ(v) == <<v[1], v[3], v[2]>>
WholeVector(v) == <<Whole(v[1]), Whole(v[2]), Whole(v[3])>>

\* C15: when the effect has run for a visible globe with a Three.js view
\* context, the Cesium camera's position is the Three.js camera's offset from
\* the Earth centre with Y and Z exchanged, times (WGS84 maximum radius /
\* Three.js Earth radius) times 1.8; its up vector is the unit vector along the
\* Three.js up vector with Y and Z exchanged; and its direction is the unit
\* vector from the camera towards the Earth centre.
C15_ViewHandoff ==
  (handoffStep \in {"matched", "fallback"} /\ threeJsViewContext # NullContext) =>
    LET c == threeJsViewContext
        offset == ExchangeYZ(subVectors(c.cameraPosition, c.earthCenterTjs))
        toEarth == ExchangeYZ(subVectors(c.earthCenterTjs, c.cameraPosition))
        factor == RMul(Rat(WGS84_MAXIMUM_RADIUS, c.earthRadiusTjs), Rat(18, 10))
    IN  /\ cesiumCamera.position = <<RMul(Whole(offset[1]), factor), RMul(Whole(offset[2]), factor),
                                    RMul(Whole(offset[3]), factor)>>
        /\ cesiumCamera.up = normalize(WholeVector(ExchangeYZ(c.cameraUp)))
        /\ cesiumCamera.direction = normalize(WholeVector(toEarth))
        /\ cesiumCamera.position # <<"flying">>
             => cesiumCamera.direction = normalize(subtract(ZERO, cesiumCamera.position))

\* The second approach ended with the camera off every axis, an up vector that
\* is not a unit vector and an Earth away from the origin of the scene, and the
\* effect has matched the view.
C15_Witness ==
  /\ handoffStep = "matched"
  /\ approaches = 2
  /\ threeJsViewContext.cameraPosition = <<2, 1, -3>>
  /\ threeJsViewContext.cameraUp = <<2, 1, -2>>
  /\ threeJsViewContext.earthCenterTjs = <<3, 0, -1>>
  /\ threeJsViewContext.earthRadiusTjs = 2
  /\ cesiumCamera.up = [along |-> <<Whole(1), Whole(-1), Rat(1, 2)>>]
  /\ cesiumCamera.direction = [along |-> <<Whole(1), Whole(2), Whole(-1)>>]

====
